---- MODULE Spec2Model ----
(***************************************************************************)
(* Model of handlers/schedule/schedule_handler.go: the positioning and     *)
(* audit-logging handlers of the schedule board (CreateSchedule,           *)
(* UpdateSchedule, UpdateSchedulePosition, DeleteSchedule,                 *)
(* UpdateTranscriptBySchedule and the column listings), over the three     *)
(* tables they touch: tw_schedules, tw_schedule_logs and                   *)
(* tw_schedule_participants.                                               *)
(*                                                                         *)
(* Every handler is a sequence of store statements (h.DB.Find / First /    *)
(* Save / Create / Scan).  The code opens no transaction, so each          *)
(* statement is atomic on its own and nothing more is.  A worker takes a   *)
(* request (the action named after the handler) and then runs the handler  *)
(* one store statement at a time (Statement, through Step).  In the        *)
(* specifications of calls served one at a time a single worker does so;   *)
(* in the others the statements of two workers interleave.                 *)
(*                                                                         *)
(* Strings that reach the log are sequences of one-character strings, so   *)
(* that strconv.Itoa is modelled by what it produces.  deleted_at is       *)
(* modelled by whether it is set, start_time by its day; end_time,         *)
(* created_at and updated_at are left out.  One workspace is modelled.     *)
(* Requests carry every field the handlers dereference (a Move always      *)
(* carries a position).  A Save writes every column of the row it is given *)
(* but the ones its Omit names, which stay as the table has them.          *)
(*                                                                         *)
(* DeletedAt of models.TwSchedule is a plain time pointer (DeleteSchedule  *)
(* assigns &now to it), so gorm.io/gorm adds no soft-delete filter:        *)
(* First(&schedule) by id finds soft-deleted rows too, and only the        *)
(* queries that say is_deleted = false / is_deleted != 1 leave them out.   *)
(***************************************************************************)
EXTENDS Integers, Sequences, FiniteSets, TLC

VARIABLES sched, logs, logBase, parts, last, wk, listed, faults

vars == <<sched, logs, logBase, parts, last, wk, listed, faults>>

(***************************************************************************)
(* Bounds of the model.                                                    *)
(***************************************************************************)
\* rows tw_schedules may hold: no Create is taken beyond it
MaxSched == 3
\* rows tw_schedule_logs may hold: no call is taken beyond it
MaxLog == 4
\* the same, where Create, Move and Delete calls with any request are served
\* one at a time (deep enough for a call on a schedule deleted before)
MaxSerialLog == 5
\* a store write of a call that may fail: the 1st .. MaxFail-th
MaxFail == 4
\* calls that may end on a failed store write: no call is taken beyond it
MaxFaults == 1

Columns == {1, 2}
Actors == {1}
Workers == {1, 2}
Ids == 1..MaxSched
\* the positions requests carry: below, in, and above the range of a column
Positions == 0..(MaxSched + 1)
Titles == {<<"a">>, <<"b">>}
\* the days of January 2024 whose midnight (UTC) a start_time may be
Days == {1, 2}
\* an optional request field: absent is << >>, present is <<v>>
Opt(S) == {<< >>} \cup {<<v>> : v \in S}

(***************************************************************************)
(* strconv.Itoa                                                            *)
(***************************************************************************)
DigitChar(d) ==
  CASE d = 0 -> "0" [] d = 1 -> "1" [] d = 2 -> "2" [] d = 3 -> "3"
    [] d = 4 -> "4" [] d = 5 -> "5" [] d = 6 -> "6" [] d = 7 -> "7"
    [] d = 8 -> "8" [] d = 9 -> "9"

RECURSIVE Digits(_)
Digits(n) == IF n < 10 THEN <<DigitChar(n)>>
             ELSE Append(Digits(n \div 10), DigitChar(n % 10))

Itoa(n) == IF n < 0 THEN <<"-">> \o Digits(0 - n) ELSE Digits(n)

(***************************************************************************)
(* Times.  A start_time is the midnight (UTC) of a day d of January 2024.  *)
(***************************************************************************)
DateChars(d) == <<"2", "0", "2", "4", "-", "0", "1", "-", "0", DigitChar(d)>>

ClockChars == <<"0", "0", ":", "0", "0", ":", "0", "0">>

\* the string a request carries for the time d: 2024-01-0dT00:00:00Z
RFC3339(d) == DateChars(d) \o <<"T">> \o ClockChars \o <<"Z">>

\* a start_time string no layout of the handlers parses
BadTime == <<"s", "o", "o", "n">>

\* schedule.StartTime.String(): 2024-01-0d 00:00:00 +0000 UTC
TimeString(d) ==
  DateChars(d) \o <<" ">> \o ClockChars
    \o <<" ", "+", "0", "0", "0", "0", " ", "U", "T", "C">>

\* convertDateFormat: time.Parse("2006-01-02T15:04:05Z07:00", s), nil (<< >>)
\* when s does not parse
convertDateFormat(s) ==
  IF \E d \in Days : s = RFC3339(d)
  THEN <<CHOOSE d \in Days : s = RFC3339(d)>>
  ELSE << >>

StartInputs == {RFC3339(d) : d \in Days} \cup {BadTime}

\* the status CreateSchedule gives, and another a client may set
StatusNotYet == <<"n", "o", "t", " ", "y", "e", "t">>

StatusDone == <<"d", "o", "n", "e">>

Statuses == {StatusNotYet, StatusDone}

(***************************************************************************)
(* Rows.                                                                   *)
(***************************************************************************)
\* models.TwSchedule, the columns the handlers below read or write.
\* start is the day of StartTime, 0 for a nil StartTime; transcript is
\* VideoTranscript.  CreateSchedule sets Status "not yet" and StartTime &now
\* (day 1 here) and leaves VideoTranscript empty.
NewSchedule(col, pos, title, by) ==
  [col |-> col, pos |-> pos, del |-> FALSE, delAt |-> FALSE,
   title |-> title, by |-> by, status |-> StatusNotYet, start |-> 1,
   transcript |-> << >>]

\* var schedule models.TwSchedule: the zero value (numbers 0, strings "",
\* flags false, time pointers nil)
NoRow ==
  [col |-> 0, pos |-> 0, del |-> FALSE, delAt |-> FALSE, title |-> << >>,
   by |-> 0, status |-> << >>, start |-> 0, transcript |-> << >>]

\* models.TwScheduleLog
LogRow(sid, actor, action, field, old, new) ==
  [sid |-> sid, actor |-> actor, action |-> action, field |-> field,
   old |-> old, new |-> new]

\* models.TwScheduleParticipant
ParticipantRow(sid, actor) ==
  [sid |-> sid, actor |-> actor, status |-> "creator",
   invitation |-> "joined"]

(***************************************************************************)
(* The queries of the handlers, on the table t (a sequence of rows whose   *)
(* index is the auto-increment id).                                        *)
(***************************************************************************)
\* CreateSchedule: board_column_id = ? and is_deleted = false
ExistingSchedules(t, col) ==
  {i \in DOMAIN t : t[i].col = col /\ ~t[i].del}

\* intra-column, towards the front: position < old AND position >= new
IntraFrontQuery(t, col, old, new) ==
  {i \in DOMAIN t : t[i].col = col /\ t[i].pos < old /\ t[i].pos >= new
                    /\ ~t[i].del}

\* intra-column, towards the back: position > old AND position <= new
IntraBackQuery(t, col, old, new) ==
  {i \in DOMAIN t : t[i].col = col /\ t[i].pos > old /\ t[i].pos <= new
                    /\ ~t[i].del}

\* cross-column, source column: position > old
SourceGapQuery(t, col, old) ==
  {i \in DOMAIN t : t[i].col = col /\ t[i].pos > old /\ ~t[i].del}

\* cross-column, target column: position >= target
TargetSlotQuery(t, col, new) ==
  {i \in DOMAIN t : t[i].col = col /\ t[i].pos >= new /\ ~t[i].del}

\* cross-column: COALESCE(MAX(position), 0) of the target column
MaxPosition(t, col) ==
  LET S == {t[i].pos : i \in {j \in DOMAIN t : t[j].col = col /\ ~t[j].del}}
  IN  IF S = {} THEN 0 ELSE CHOOSE m \in S : \A x \in S : x <= m

\* (a variant without the condition on board_column_id)
DeleteGapQueryAnyColumn(t, col, p) ==
  {i \in DOMAIN t : t[i].pos > p /\ ~t[i].del}

\* DeleteSchedule: position > deleted position
DeleteGapQuery(t, col, p) ==
  {i \in DOMAIN t : t[i].col = col /\ t[i].pos > p /\ ~t[i].del}

\* Order("position ASC"): the found rows, as the snapshots the loop saves,
\* in every order the store may return them in.  The order of rows of equal
\* position is the store's choice.
RECURSIVE OrderByPosition(_, _)
OrderByPosition(t, S) ==
  IF S = {} THEN {<< >>}
  ELSE LET firsts == {x \in S : \A y \in S : t[x].pos <= t[y].pos}
       IN  UNION {{<<[id |-> i, row |-> t[i]]>> \o q :
                     q \in OrderByPosition(t, S \ {i})} : i \in firsts}

\* Omit("deleted_at").Save(&schedule): every modelled column but deleted_at,
\* which stays as the table has it
SaveOmitDeletedAt(t, id, row) ==
  [t EXCEPT ![id] = [row EXCEPT !.delAt = t[id].delAt]]

\* Omit("deleted_at,start_time,end_time").Save(&row) of the shift loops:
\* deleted_at and start_time stay as the table has them
SaveOmitDeletedAtAndTimes(t, id, row) ==
  [t EXCEPT ![id] = [row EXCEPT !.delAt = t[id].delAt,
                                !.start = t[id].start]]

\* Omit("start_time,end_time").Save(&schedule) of DeleteSchedule: every
\* modelled column but start_time, which stays as the table has it
SaveSchedule(t, id, row) ==
  [t EXCEPT ![id] = [row EXCEPT !.start = t[id].start]]

\* h.DB.Save(&schedule) of UpdateTranscriptBySchedule: every column
Save(t, id, row) == [t EXCEPT ![id] = row]

\* checkAndLog of UpdateSchedule and UpdateSchedulePosition
checkAndLog(buf, sid, actor, field, old, new) ==
  IF old # new
  THEN Append(buf, LogRow(sid, actor, "update schedule", field, old, new))
  ELSE buf

(***************************************************************************)
(* A handler call in progress: the request, the position in the handler    *)
(* and the handler's local variables.                                      *)
(*   col         the optional request field board_column_id                *)
(*   patch       the optional request fields title, status, start_time     *)
(*   fail        0: no store write of the call fails; k > 0: the k-th does *)
(*   row         the local `schedule`                                      *)
(*   list, delta, next   the rows a shift loop still has to save, the      *)
(*               change it applies to each, and where the handler goes on  *)
(*   buf         the local `logs`                                          *)
(*   max         the local maxPosition of the append branch, once scanned  *)
(*   pre         tw_schedules and tw_schedule_participants as they were    *)
(*               when the request was taken (the handler does not read it) *)
(*   transcript  the optional request field video_transcript (an object)   *)
(*   status      the HTTP status of the response, 0 while running,         *)
(*               Panicked when the call ended in a panic                   *)
(*   at          the statement the call returned from                      *)
(***************************************************************************)
\* core_dtos.TwUpdateScheduleRequest, the fields modelled (each optional)
Patch(title, status, start) ==
  [title |-> title, status |-> status, start |-> start]

NoPatch == Patch(<< >>, << >>, << >>)

Idle ==
  [op |-> "idle", pc |-> "idle", id |-> 0, col |-> << >>, pos |-> 0,
   patch |-> NoPatch, actor |-> 0, fail |-> 0, row |-> NoRow, list |-> << >>,
   delta |-> 0, next |-> "", buf |-> << >>, max |-> << >>,
   pre |-> [sched |-> << >>, parts |-> << >>], transcript |-> << >>,
   status |-> 0, at |-> ""]

Request(op, id, col, pos, patch, actor, fail) ==
  [Idle EXCEPT !.op = op, !.id = id, !.col = col, !.pos = pos,
               !.patch = patch, !.actor = actor, !.fail = fail,
               !.pc = CASE op = "create" -> "c_find"
                        [] op = "update" -> "u_first"
                        [] op = "move"   -> "m_first"
                        [] op = "delete" -> "d_first"
                        [] op = "transcript" -> "t_first"]

\* the response: the call is over, only the request and the status remain
Respond(st, code) ==
  [st EXCEPT !.w = [Idle EXCEPT !.op = st.w.op, !.id = st.w.id,
                                !.col = st.w.col, !.pos = st.w.pos,
                                !.patch = st.w.patch, !.actor = st.w.actor,
                                !.transcript = st.w.transcript,
                                !.pc = "done", !.status = code,
                                !.at = st.w.pc]]

\* the status of a call that ended in a panic: no response is sent
Panicked == -1

\* return c.JSON(core_dtos.TwUpdateScheduleResponse{..., StartTime:
\* *schedule.StartTime, ...}) of UpdateSchedule and UpdateSchedulePosition:
\* 200, or a nil pointer dereference when the local row has no StartTime
\* (no recover middleware is installed).  EndTime, CreatedAt and UpdatedAt
\* are dereferenced too; CreateSchedule sets them and they are left out.
RespondSchedule(st) ==
  Respond(st, IF st.w.row.start = 0 THEN Panicked ELSE 200)

\* does the store write the call is about to issue fail
WriteFails(w) == w.fail = 1

\* a store write succeeded
Written(w) == [w EXCEPT !.fail = IF @ > 0 THEN @ - 1 ELSE 0]

(***************************************************************************)
(* CreateSchedule                                                          *)
(***************************************************************************)
\* h.DB.Where(...).Find(&existingSchedules); schedule := models.TwSchedule{...}
CreateFind(st) ==
  LET w == st.w
      n == Cardinality(ExistingSchedules(st.sched, w.col[1]))
  IN  [st EXCEPT !.w.row = NewSchedule(w.col[1], n + 1, w.patch.title[1],
                                        w.actor),
                 !.w.pc = "c_insert"]

\* h.DB.Create(&schedule)
CreateInsert(st) ==
  IF WriteFails(st.w) THEN Respond(st, 500)
  ELSE [st EXCEPT !.sched = Append(@, st.w.row),
                  !.w = [Written(@) EXCEPT !.id = Len(st.sched) + 1,
                                           !.pc = "c_log"]]

\* h.DB.Create(&newScheduleLog)
CreateLog(st) ==
  IF WriteFails(st.w) THEN Respond(st, 500)
  ELSE [st EXCEPT !.logs = Append(@, LogRow(st.w.id, st.w.actor,
                                     "create schedule", "", << >>, << >>)),
                  !.w = [Written(@) EXCEPT !.pc = "c_participant"]]

\* h.DB.Create(&newScheduleParticipant)
CreateParticipant(st) ==
  IF WriteFails(st.w) THEN Respond(st, 500)
  ELSE Respond([st EXCEPT !.parts =
                  Append(@, ParticipantRow(st.w.id, st.w.actor))], 201)

(***************************************************************************)
(* UpdateSchedule (title, start_time and status are the tracked fields     *)
(* modelled; the others are handled as title and status are)               *)
(***************************************************************************)
\* if scheduleDTO.Title != nil { checkAndLog(...); schedule.Title = ... }
PatchTitle(w) ==
  IF w.patch.title = << >> THEN w
  ELSE [w EXCEPT !.buf = checkAndLog(@, w.id, w.actor, "title", w.row.title,
                                     w.patch.title[1]),
                 !.row.title = w.patch.title[1]]

\* if scheduleDTO.StartTime != nil: checkAndLog compares
\* schedule.StartTime.String() ("" for a nil StartTime) with the request's
\* string, then the string is parsed and the time is assigned when it parses
PatchStartTime(w) ==
  IF w.patch.start = << >> THEN w
  ELSE LET oldStartTime == IF w.row.start = 0 THEN << >>
                           ELSE TimeString(w.row.start)
           parsedTime == convertDateFormat(w.patch.start[1])
       IN  [w EXCEPT !.buf = checkAndLog(@, w.id, w.actor, "start_time",
                                         oldStartTime, w.patch.start[1]),
                     !.row.start = IF parsedTime = << >> THEN @
                                   ELSE parsedTime[1]]

\* if scheduleDTO.Status != nil { checkAndLog(...); schedule.Status = ... }
PatchStatus(w) ==
  IF w.patch.status = << >> THEN w
  ELSE [w EXCEPT !.buf = checkAndLog(@, w.id, w.actor, "status",
                                     w.row.status, w.patch.status[1]),
                 !.row.status = w.patch.status[1]]

\* h.DB.Where("id = ?").First(&schedule), then the patch on the local row
\* and schedule.CreatedBy = workspaceUserId
UpdateFirst(st) ==
  LET w == st.w IN
  IF w.id \notin DOMAIN st.sched THEN Respond(st, 404)
  ELSE LET w1 == PatchStatus(PatchStartTime(PatchTitle(
                   [w EXCEPT !.row = st.sched[w.id]])))
       IN  [st EXCEPT !.w = [w1 EXCEPT !.row.by = w.actor, !.pc = "u_save"]]

\* h.DB.Omit("deleted_at").Save(&schedule), and the response when there is
\* no log row to insert
SaveLocal(st, logsPc) ==
  IF WriteFails(st.w) THEN Respond(st, 500)
  ELSE LET st1 == [st EXCEPT !.sched = SaveOmitDeletedAt(@, st.w.id, st.w.row),
                             !.w = Written(@)]
       IN  IF st.w.buf = << >> THEN RespondSchedule(st1)
           ELSE [st1 EXCEPT !.w.pc = logsPc]

\* if len(logs) > 0 { h.DB.Create(&logs) }, and the response
CreateLogs(st) ==
  IF WriteFails(st.w) THEN Respond(st, 500)
  ELSE RespondSchedule([st EXCEPT !.logs = @ \o st.w.buf])

(***************************************************************************)
(* UpdateSchedulePosition                                                  *)
(***************************************************************************)
\* checkAndLog("position", ...); schedule.Position = p;
\* checkAndLog("board_column_id", ...); schedule.BoardColumnId = column.
\* The position logged is the requested one, also when p is not.
Place(w, p) ==
  LET b1 == checkAndLog(w.buf, w.id, w.actor, "position",
                        Itoa(w.row.pos), Itoa(w.pos))
      b2 == checkAndLog(b1, w.id, w.actor, "board_column_id",
                        Itoa(w.row.col), Itoa(w.col[1]))
  IN  [w EXCEPT !.buf = b2, !.row.pos = p, !.row.col = w.col[1],
                !.list = << >>, !.delta = 0, !.next = "", !.pc = "m_save"]

\* where a handler goes on after a shift loop
LoopExit(w) ==
  CASE w.next = "place"  -> Place(w, w.pos)
    [] w.next = "target" -> [w EXCEPT !.delta = 0, !.next = "",
                                      !.pc = "m_findTarget"]
    [] w.next = "d_log"  -> [w EXCEPT !.delta = 0, !.next = "",
                                      !.pc = "d_log"]

\* for i := range schedulesToUpdate, entered with the rows just found
EnterLoop(w, list, delta, next) ==
  LET w1 == [w EXCEPT !.list = list, !.delta = delta, !.next = next]
  IN  IF list = << >> THEN LoopExit(w1) ELSE [w1 EXCEPT !.pc = "shift"]

\* h.DB.Where("id = ?").First(&schedule) and the dispatch on the request
MoveFirst(st) ==
  LET w == st.w IN
  IF w.id \notin DOMAIN st.sched THEN Respond(st, 404)
  ELSE LET r == st.sched[w.id]
           w1 == [w EXCEPT !.row = r]
       IN  [st EXCEPT !.w =
             IF w.col = << >> THEN [w1 EXCEPT !.pc = "m_save"]
             ELSE IF w.col[1] = r.col
                  THEN IF w.pos < r.pos THEN [w1 EXCEPT !.pc = "m_findFront"]
                       ELSE IF w.pos > r.pos
                            THEN [w1 EXCEPT !.pc = "m_findBack"]
                            ELSE Place(w1, w.pos)
                  ELSE [w1 EXCEPT !.pc = "m_findSource"]]

\* newPosition < position: Find(&schedulesToUpdate), each to be saved at +1
MoveFindFront(st) ==
  LET w == st.w
      S == IntraFrontQuery(st.sched, w.row.col, w.row.pos, w.pos)
  IN  {[st EXCEPT !.w = EnterLoop(w, list, 1, "place")] :
         list \in OrderByPosition(st.sched, S)}

\* newPosition > position: Find(&schedulesToUpdate), each to be saved at -1
MoveFindBack(st) ==
  LET w == st.w
      S == IntraBackQuery(st.sched, w.row.col, w.row.pos, w.pos)
  IN  {[st EXCEPT !.w = EnterLoop(w, list, -1, "place")] :
         list \in OrderByPosition(st.sched, S)}

\* another column: Find(&schedulesToUpdate) in the source column, each at -1
MoveFindSource(st) ==
  LET w == st.w
      S == SourceGapQuery(st.sched, w.row.col, w.row.pos)
  IN  {[st EXCEPT !.w = EnterLoop(w, list, -1, "target")] :
         list \in OrderByPosition(st.sched, S)}

\* Find(&schedulesInBoardColumnToUpdate) in the target column, each at +1
MoveFindTarget(st) ==
  LET w == st.w
      S == TargetSlotQuery(st.sched, w.col[1], w.pos)
  IN  IF S = {} THEN {[st EXCEPT !.w.pc = "m_max"]}
      ELSE {[st EXCEPT !.w = EnterLoop(w, list, 1, "place")] :
              list \in OrderByPosition(st.sched, S)}

\* no row found in the target column: Scan(&maxPosition), append
MoveMax(st) ==
  LET maxPosition == MaxPosition(st.sched, st.w.col[1])
  IN  [st EXCEPT !.w = Place([@ EXCEPT !.max = <<maxPosition>>],
                             maxPosition + 1)]

\* one turn of a shift loop: Position += delta,
\* Omit("deleted_at,start_time,end_time").Save(&row)
ShiftSave(st) ==
  IF WriteFails(st.w) THEN Respond(st, 500)
  ELSE LET h == Head(st.w.list)
           w1 == [Written(st.w) EXCEPT !.list = Tail(@)]
       IN  [st EXCEPT
              !.sched = SaveOmitDeletedAtAndTimes(@, h.id,
                          [h.row EXCEPT !.pos = @ + st.w.delta]),
              !.w = IF w1.list = << >> THEN LoopExit(w1) ELSE w1]

(***************************************************************************)
(* DeleteSchedule                                                          *)
(***************************************************************************)
\* (a variant that takes a missing row for a deleted one: it logs the
\* delete and answers 200)
DeleteFirstMissingAsDeleted(st) ==
  LET w == st.w IN
  IF w.id \notin DOMAIN st.sched
  THEN Respond([st EXCEPT !.logs = Append(@, LogRow(w.id, w.actor,
                                     "delete schedule", "", << >>, << >>))],
               200)
  ELSE [st EXCEPT !.w.row = [st.sched[w.id] EXCEPT !.del = TRUE,
                                                    !.delAt = TRUE],
                  !.w.pc = "d_save"]

\* First(&schedule); IsDeleted = true; DeletedAt = &now
DeleteFirst(st) ==
  LET w == st.w IN
  IF w.id \notin DOMAIN st.sched THEN Respond(st, 404)
  ELSE [st EXCEPT !.w.row = [st.sched[w.id] EXCEPT !.del = TRUE,
                                                    !.delAt = TRUE],
                  !.w.pc = "d_save"]

\* h.DB.Omit("start_time,end_time").Save(&schedule)
DeleteSave(st) ==
  IF WriteFails(st.w) THEN Respond(st, 500)
  ELSE [st EXCEPT !.sched = SaveSchedule(@, st.w.id, st.w.row),
                  !.w = [Written(@) EXCEPT !.pc = "d_find"]]

\* Find(&schedulesToUpdate) behind the deleted row, each to be saved at -1
DeleteFind(st) ==
  LET w == st.w
      S == DeleteGapQuery(st.sched, w.row.col, w.row.pos)
  IN  {[st EXCEPT !.w = EnterLoop(w, list, -1, "d_log")] :
         list \in OrderByPosition(st.sched, S)}

\* h.DB.Create(&newScheduleLog)
DeleteLog(st) ==
  IF WriteFails(st.w) THEN Respond(st, 500)
  ELSE Respond([st EXCEPT !.logs = Append(@, LogRow(st.w.id, st.w.actor,
                                     "delete schedule", "", << >>, << >>))],
               200)

(***************************************************************************)
(* UpdateTranscriptBySchedule                                              *)
(***************************************************************************)
\* json.Marshal of the video_transcript object of the request; the object
\* modelled is the empty one
EmptyObject == <<"{", "}">>

\* the body without a video_transcript object is answered 400; else
\* First(&schedule) and schedule.VideoTranscript = string(videoTranscriptStr)
TranscriptFirst(st) ==
  LET w == st.w IN
  IF w.transcript = << >> THEN Respond(st, 400)
  ELSE IF w.id \notin DOMAIN st.sched THEN Respond(st, 404)
  ELSE [st EXCEPT !.w.row = [st.sched[w.id] EXCEPT
                               !.transcript = w.transcript[1]],
                  !.w.pc = "t_save"]

\* h.DB.Save(&schedule)
TranscriptSave(st) ==
  IF WriteFails(st.w) THEN Respond(st, 500)
  ELSE Respond([st EXCEPT !.sched = Save(@, st.w.id, st.w.row),
                          !.w = Written(@)], 200)

(***************************************************************************)
(* One store statement of the call st.w on the tables of st: the states    *)
(* it may lead to (more than one where the store chooses an order).  And   *)
(* the states a call may end in when no other call takes a step.           *)
(***************************************************************************)
Step(st) ==
  CASE st.w.pc = "c_find"        -> {CreateFind(st)}
    [] st.w.pc = "c_insert"      -> {CreateInsert(st)}
    [] st.w.pc = "c_log"         -> {CreateLog(st)}
    [] st.w.pc = "c_participant" -> {CreateParticipant(st)}
    [] st.w.pc = "u_first"       -> {UpdateFirst(st)}
    [] st.w.pc = "u_save"        -> {SaveLocal(st, "u_logs")}
    [] st.w.pc = "u_logs"        -> {CreateLogs(st)}
    [] st.w.pc = "m_first"       -> {MoveFirst(st)}
    [] st.w.pc = "m_findFront"   -> MoveFindFront(st)
    [] st.w.pc = "m_findBack"    -> MoveFindBack(st)
    [] st.w.pc = "m_findSource"  -> MoveFindSource(st)
    [] st.w.pc = "m_findTarget"  -> MoveFindTarget(st)
    [] st.w.pc = "m_max"         -> {MoveMax(st)}
    [] st.w.pc = "shift"         -> {ShiftSave(st)}
    [] st.w.pc = "m_save"        -> {SaveLocal(st, "m_logs")}
    [] st.w.pc = "m_logs"        -> {CreateLogs(st)}
    [] st.w.pc = "d_first"       -> {DeleteFirst(st)}
    [] st.w.pc = "d_save"        -> {DeleteSave(st)}
    [] st.w.pc = "d_find"        -> DeleteFind(st)
    [] st.w.pc = "d_log"         -> {DeleteLog(st)}
    [] st.w.pc = "t_first"       -> {TranscriptFirst(st)}
    [] st.w.pc = "t_save"        -> {TranscriptSave(st)}

RECURSIVE Run(_)
Run(st) ==
  IF st.w.pc = "done" THEN {st} ELSE UNION {Run(s) : s \in Step(st)}

\* rows of tw_schedule_logs
LogCount == logBase + Len(logs)

(***************************************************************************)
(* The data model's terms: the active schedules of a column, and           *)
(* invariant I1 (their positions are exactly 1..N, none twice).            *)
(***************************************************************************)
Active(t, col) == {i \in DOMAIN t : t[i].col = col /\ t[i].del = FALSE}

Dense(t, col) ==
  /\ {t[i].pos : i \in Active(t, col)} = 1..Cardinality(Active(t, col))
  /\ \A i, j \in Active(t, col) : t[i].pos = t[j].pos => i = j

I1 == \A col \in Columns : Dense(sched, col)

(***************************************************************************)
(* The requests the contracts of Move and Delete allow at the moment they  *)
(* arrive: an existing, active schedule; a position in 1..N for a move     *)
(* inside a column, in 1..M+1 for a move to another column.  The handlers  *)
(* check neither; some specifications offer only such requests, to show    *)
(* what the code does with them.                                           *)
(***************************************************************************)
ValidMove(id, col, pos) ==
  /\ id \in DOMAIN sched
  /\ ~sched[id].del
  /\ LET n == Cardinality(Active(sched, col))
     IN  IF col = sched[id].col THEN pos \in 1..n ELSE pos \in 1..(n + 1)

ValidDelete(id) == id \in DOMAIN sched /\ ~sched[id].del

(***************************************************************************)
(* State.                                                                  *)
(*   sched   tw_schedules, indexed by id                                   *)
(*   logs, logBase   tw_schedule_logs, in insertion order: the rows        *)
(*           inserted since the latest request was taken, and how many     *)
(*           rows were inserted before.  The handlers only insert into     *)
(*           this table, so the older rows are kept as their number.       *)
(*   parts   tw_schedule_participants, in insertion order                  *)
(*   last    the call answered last: what it was, who made it, and its     *)
(*           response status                                               *)
(*   wk      the calls the workers are serving                             *)
(*   listed  what the latest column listing returned                       *)
(*   faults  the calls that ended on a failed store write or in a panic    *)
(***************************************************************************)
NotListed == [col |-> 0, rows |-> << >>, during |-> {}]

\* what is kept of an answered call w
Answer(w) ==
  [op |-> w.op, id |-> w.id, actor |-> w.actor, status |-> w.status,
   at |-> w.at]

Init ==
  /\ sched = << >>
  /\ logs = << >>
  /\ logBase = 0
  /\ parts = << >>
  /\ last = Answer(Idle)
  /\ wk = [w \in Workers |-> Idle]
  /\ listed = NotListed
  /\ faults = 0

Free(w) == wk[w].pc = "idle"

\* no call is in progress
Quiet == \A w \in Workers : Free(w)

(***************************************************************************)
(* The handlers.  A free worker takes a request: the handler has parsed    *)
(* the body and the parameters and has issued no store statement yet.      *)
(* Statement then runs the handler, one store statement a step, to its     *)
(* response.  The handlers take no lock and open no transaction, so the    *)
(* statements of the calls of different workers interleave freely.         *)
(***************************************************************************)
Enter(w, r) ==
  /\ Free(w)
  /\ wk' = [wk EXCEPT ![w] = [r EXCEPT !.pre = [sched |-> sched,
                                                parts |-> parts]]]
  /\ logs' = << >>
  /\ logBase' = LogCount
  /\ UNCHANGED <<sched, parts, last, listed, faults>>

CreateSchedule(w, col, title, actor, fail) ==
  Enter(w, Request("create", 0, <<col>>, 0, Patch(<<title>>, << >>, << >>),
                   actor, fail))

UpdateSchedule(w, id, patch, actor, fail) ==
  Enter(w, Request("update", id, << >>, 0, patch, actor, fail))

\* the request of an UpdateTranscriptBySchedule call (it names no actor)
TranscriptRequest(id, transcript, fail) ==
  [Request("transcript", id, << >>, 0, NoPatch, 0, fail)
     EXCEPT !.transcript = transcript]

UpdateTranscriptBySchedule(w, id, transcript, fail) ==
  Enter(w, TranscriptRequest(id, transcript, fail))

UpdateSchedulePosition(w, id, col, pos, actor, fail) ==
  Enter(w, Request("move", id, col, pos, NoPatch, actor, fail))

DeleteSchedule(w, id, actor, fail) ==
  Enter(w, Request("delete", id, << >>, 0, NoPatch, actor, fail))

\* the next store statement of worker w's call; the worker is free again
\* once the response is sent.  A panic ends the process, and with it the
\* calls the other workers are serving.
Statement(w) ==
  /\ ~Free(w)
  /\ \E st \in Step([sched |-> sched, logs |-> logs, parts |-> parts,
                     w |-> wk[w]]) :
       /\ sched' = st.sched
       /\ logs' = st.logs
       /\ parts' = st.parts
       /\ wk' = IF st.w.status = Panicked THEN [v \in Workers |-> Idle]
                ELSE [wk EXCEPT ![w] = IF st.w.pc = "done" THEN Idle
                                       ELSE st.w]
       /\ last' = IF st.w.pc = "done" THEN Answer(st.w) ELSE last
       /\ faults' = IF st.w.status \in {500, Panicked} THEN faults + 1
                    ELSE faults
  /\ UNCHANGED <<logBase, listed>>

\* getSchedulesByBoardColumn: is_deleted = false, Order("position")
ListQuery(t, col) == {i \in DOMAIN t : t[i].col = col /\ ~t[i].del}

\* the listing a caller reads; `during` records the calls in progress then
ListColumn(col) ==
  /\ \E rows \in OrderByPosition(sched, ListQuery(sched, col)) :
       listed' = [col |-> col, rows |-> rows,
                  during |-> {wk[w].op : w \in {v \in Workers : ~Free(v)}}]
  /\ UNCHANGED <<sched, logs, logBase, parts, last, wk, faults>>

\* GetSchedulesByBoardColumn: Where("board_column_id = ?"), no other
\* condition
ListAllQuery(t, col) == {i \in DOMAIN t : t[i].col = col}

\* Find(&schedules) without Order: the rows found, in any order the store
\* may return them in
RECURSIVE AnyOrder(_, _)
AnyOrder(t, S) ==
  IF S = {} THEN {<< >>}
  ELSE UNION {{<<[id |-> i, row |-> t[i]]>> \o q : q \in AnyOrder(t, S \ {i})}
              : i \in S}

\* the listing a caller of GetSchedulesByBoardColumn reads
GetSchedulesByBoardColumn(col) ==
  /\ \E rows \in AnyOrder(sched, ListAllQuery(sched, col)) :
       listed' = [col |-> col, rows |-> rows,
                  during |-> {wk[w].op : w \in {v \in Workers : ~Free(v)}}]
  /\ UNCHANGED <<sched, logs, logBase, parts, last, wk, faults>>

(***************************************************************************)
(* What bounds the specifications (the code has no such limit): a request  *)
(* is taken while the log rows, and one more for each call in progress,    *)
(* stay below cap, and a Create while the schedule rows, and one more for  *)
(* each Create in progress, stay below MaxSched.                           *)
(***************************************************************************)
LogRoom(cap) == LogCount + Cardinality({v \in Workers : ~Free(v)}) < cap

RowRoom ==
  Len(sched) + Cardinality({v \in Workers : wk[v].op = "create"}) < MaxSched

(***************************************************************************)
(* Calls served one at a time: worker 1 takes a request when it is free    *)
(* and runs it to its response.  The store does not fail but in SpecFail.  *)
(***************************************************************************)
\* the calls that position schedules, with any request
Next ==
  \/ /\ LogRoom(MaxSerialLog) /\ RowRoom
     /\ \E a \in Actors, col \in Columns :
          CreateSchedule(1, col, <<"a">>, a, 0)
  \/ /\ LogRoom(MaxSerialLog)
     /\ \E a \in Actors, id \in Ids, c \in Opt(Columns), p \in Positions :
          UpdateSchedulePosition(1, id, c, p, a, 0)
  \/ /\ LogRoom(MaxSerialLog)
     /\ \E a \in Actors, id \in Ids : DeleteSchedule(1, id, a, 0)
  \/ Statement(1)

Spec == Init /\ [][Next]_vars

\* Create, Update, Move and Delete calls, with any request
NextAll ==
  \/ /\ LogRoom(MaxLog) /\ RowRoom
     /\ \E a \in Actors, col \in Columns :
          CreateSchedule(1, col, <<"a">>, a, 0)
  \/ /\ LogRoom(MaxLog)
     /\ \E a \in Actors, id \in Ids, title \in Opt(Titles) :
          UpdateSchedule(1, id, Patch(title, << >>, << >>), a, 0)
  \/ /\ LogRoom(MaxLog)
     /\ \E a \in Actors, id \in Ids, c \in Opt(Columns), p \in Positions :
          UpdateSchedulePosition(1, id, c, p, a, 0)
  \/ /\ LogRoom(MaxLog)
     /\ \E a \in Actors, id \in Ids : DeleteSchedule(1, id, a, 0)
  \/ Statement(1)

SpecAll == Init /\ [][NextAll]_vars

\* the patches an Update may carry: each field absent or present
UpdatePatches ==
  {Patch(title, status, start) :
     title \in Opt(Titles), status \in Opt(Statuses), start \in Opt(StartInputs)}

\* Create and Update calls
NextUpdate ==
  \/ /\ LogRoom(MaxLog) /\ RowRoom
     /\ \E a \in Actors, col \in Columns :
          CreateSchedule(1, col, <<"a">>, a, 0)
  \/ /\ LogRoom(MaxLog)
     /\ \E a \in Actors, id \in Ids, patch \in UpdatePatches :
          UpdateSchedule(1, id, patch, a, 0)
  \/ Statement(1)

SpecUpdate == Init /\ [][NextUpdate]_vars

\* the actors that update schedules: the creating actor and another one
Editors == Actors \cup {2}

\* Create by one actor, Update and Delete by any editor, UpdateTranscript
NextEdit ==
  \/ /\ LogRoom(MaxLog) /\ RowRoom
     /\ \E a \in Actors, col \in Columns :
          CreateSchedule(1, col, <<"a">>, a, 0)
  \/ /\ LogRoom(MaxLog)
     /\ \E e \in Editors, id \in Ids, title \in Opt(Titles),
             status \in Opt({StatusDone}) :
          UpdateSchedule(1, id, Patch(title, status, << >>), e, 0)
  \/ /\ LogRoom(MaxLog)
     /\ \E e \in Editors, id \in Ids : DeleteSchedule(1, id, e, 0)
  \/ /\ LogRoom(MaxLog)
     /\ \E id \in Ids, tr \in Opt({EmptyObject}) :
          UpdateTranscriptBySchedule(1, id, tr, 0)
  \/ Statement(1)

SpecEdit == Init /\ [][NextEdit]_vars

\* calls within the contracts, any one store write of a call failing
NextFail ==
  \/ /\ LogRoom(MaxLog) /\ faults < MaxFaults /\ RowRoom
     /\ \E a \in Actors, f \in 0..MaxFail, col \in Columns :
          CreateSchedule(1, col, <<"a">>, a, f)
  \/ /\ LogRoom(MaxLog) /\ faults < MaxFaults
     /\ \E a \in Actors, f \in 0..MaxFail, id \in Ids, c \in Columns,
             p \in Positions :
          ValidMove(id, c, p) /\ UpdateSchedulePosition(1, id, <<c>>, p, a, f)
  \/ /\ LogRoom(MaxLog) /\ faults < MaxFaults
     /\ \E a \in Actors, f \in 0..MaxFail, id \in Ids :
          ValidDelete(id) /\ DeleteSchedule(1, id, a, f)
  \/ Statement(1)

SpecFail == Init /\ [][NextFail]_vars

\* calls within the contracts, and a caller listing columns between them
\* through either listing handler
NextList ==
  \/ /\ LogRoom(MaxLog) /\ RowRoom
     /\ \E a \in Actors, col \in Columns :
          CreateSchedule(1, col, <<"a">>, a, 0)
  \/ /\ LogRoom(MaxLog)
     /\ \E a \in Actors, id \in Ids, c \in Columns, p \in Positions :
          ValidMove(id, c, p) /\ UpdateSchedulePosition(1, id, <<c>>, p, a, 0)
  \/ /\ LogRoom(MaxLog)
     /\ \E a \in Actors, id \in Ids :
          ValidDelete(id) /\ DeleteSchedule(1, id, a, 0)
  \/ Statement(1)
  \/ Quiet /\ \E col \in Columns : ListColumn(col)
  \/ Quiet /\ \E col \in Columns : GetSchedulesByBoardColumn(col)

SpecList == Init /\ [][NextList]_vars

\* calls within the contracts, and another caller listing columns at any
\* moment, also while a call is in progress
NextObs ==
  \/ /\ LogRoom(MaxLog) /\ RowRoom
     /\ \E a \in Actors, col \in Columns :
          CreateSchedule(1, col, <<"a">>, a, 0)
  \/ /\ LogRoom(MaxLog)
     /\ \E a \in Actors, id \in Ids, c \in Columns, p \in Positions :
          ValidMove(id, c, p) /\ UpdateSchedulePosition(1, id, <<c>>, p, a, 0)
  \/ /\ LogRoom(MaxLog)
     /\ \E a \in Actors, id \in Ids :
          ValidDelete(id) /\ DeleteSchedule(1, id, a, 0)
  \/ Statement(1)
  \/ \E col \in Columns : ListColumn(col)

SpecObs == Init /\ [][NextObs]_vars

(***************************************************************************)
(* Calls served in parallel: each worker takes a request when it is free,  *)
(* and the statements of the two calls interleave.  The requests are       *)
(* within the contracts when they are taken.  The store does not fail.     *)
(***************************************************************************)
NextConc ==
  \/ /\ LogRoom(MaxLog) /\ RowRoom
     /\ \E w \in Workers, a \in Actors, col \in Columns :
          CreateSchedule(w, col, <<"a">>, a, 0)
  \/ /\ LogRoom(MaxLog)
     /\ \E w \in Workers, a \in Actors, id \in Ids, c \in Columns,
             p \in Positions :
          ValidMove(id, c, p) /\ UpdateSchedulePosition(w, id, <<c>>, p, a, 0)
  \/ /\ LogRoom(MaxLog)
     /\ \E w \in Workers, a \in Actors, id \in Ids :
          ValidDelete(id) /\ DeleteSchedule(w, id, a, 0)
  \/ \E w \in Workers : Statement(w)

SpecConc == Init /\ [][NextConc]_vars

\* Two workers on disjoint columns: worker 1 serves the calls on columns 1
\* and 2 (moves between them included), worker 2 the calls on column 3.
ColumnsOf(w) == IF w = 1 THEN {1, 2} ELSE {3}

NextDisjoint ==
  \/ /\ LogRoom(MaxLog) /\ RowRoom
     /\ \E w \in Workers : \E a \in Actors, col \in ColumnsOf(w) :
          CreateSchedule(w, col, <<"a">>, a, 0)
  \/ /\ LogRoom(MaxLog)
     /\ \E w \in Workers :
          \E a \in Actors, id \in Ids, c \in ColumnsOf(w), p \in Positions :
            /\ ValidMove(id, c, p)
            /\ sched[id].col \in ColumnsOf(w)
            /\ UpdateSchedulePosition(w, id, <<c>>, p, a, 0)
  \/ /\ LogRoom(MaxLog)
     /\ \E w \in Workers, a \in Actors, id \in Ids :
          /\ ValidDelete(id)
          /\ sched[id].col \in ColumnsOf(w)
          /\ DeleteSchedule(w, id, a, 0)
  \/ \E w \in Workers : Statement(w)

SpecDisjoint == Init /\ [][NextDisjoint]_vars

\* the patches the Updates of the parallel workers carry: a title or a
\* start_time
WorkerPatches ==
  {Patch(<<<<"b">>>>, << >>, << >>), Patch(<< >>, << >>, <<RFC3339(2)>>)}

\* Every handler that saves rows of tw_schedules, served by parallel
\* workers: both workers serve Update and UpdateTranscript calls, worker 1
\* also the calls that position schedules (so that these are serialized).
NextWorkers ==
  \/ /\ LogRoom(MaxLog) /\ RowRoom
     /\ \E a \in Actors, col \in Columns :
          CreateSchedule(1, col, <<"a">>, a, 0)
  \/ /\ LogRoom(MaxLog)
     /\ \E a \in Actors, id \in Ids, c \in Columns, p \in Positions :
          ValidMove(id, c, p) /\ UpdateSchedulePosition(1, id, <<c>>, p, a, 0)
  \/ /\ LogRoom(MaxLog)
     /\ \E a \in Actors, id \in Ids :
          ValidDelete(id) /\ DeleteSchedule(1, id, a, 0)
  \/ /\ LogRoom(MaxLog)
     /\ \E w \in Workers, a \in Actors, id \in DOMAIN sched,
             patch \in WorkerPatches :
          UpdateSchedule(w, id, patch, a, 0)
  \/ /\ LogRoom(MaxLog)
     /\ \E w \in Workers, id \in DOMAIN sched :
          UpdateTranscriptBySchedule(w, id, <<EmptyObject>>, 0)
  \/ \E w \in Workers : Statement(w)

SpecWorkers == Init /\ [][NextWorkers]_vars

\* With one worker and requests within the contracts, I1 holds whenever no
\* call is in progress (checked under SpecObs): what breaks I1 under
\* SpecConc or shows in a listing under SpecObs is the interleaving.
SerialI1 == Quiet => I1

(***************************************************************************)
(* Terms of the claims.  A step is a request taken, a store statement or   *)
(* a listing.  Where calls are served one at a time, the tables a call     *)
(* found are the ones recorded when its request was taken (Before), the    *)
(* tables it left are the primed ones of the step that answers it, last'   *)
(* is its response, and logs' holds the log rows it inserted.              *)
(***************************************************************************)
\* worker w's call is answered in this step
Ends(w) == ~Free(w) /\ wk'[w].pc = "idle"

\* worker w's call runs a store statement in this step
Runs(w) == ~Free(w) /\ wk'[w] # wk[w]

\* tw_schedules as it was when worker w took the request it is serving
Before(w) == wk[w].pre.sched

\* worker w's call is a Move of a schedule that was inside the requested
\* column when the request was taken
IntraMove(w) ==
  /\ wk[w].op = "move"
  /\ wk[w].id \in DOMAIN Before(w)
  /\ wk[w].col = <<Before(w)[wk[w].id].col>>

\* worker w's call is a Move of a schedule that was in another column than
\* the requested one when the request was taken
CrossMove(w) ==
  /\ wk[w].op = "move"
  /\ wk[w].id \in DOMAIN Before(w)
  /\ wk[w].col # << >>
  /\ wk[w].col # <<Before(w)[wk[w].id].col>>

\* the call answered in this step inserted no row into tw_schedule_logs
NoLogRow == logs' = << >>

\* the positions a listing returned are 1..n in this order
ListedDense == \A k \in 1..Len(listed.rows) : listed.rows[k].row.pos = k

\* the active schedules of column col at position p or behind
AtOrBehind(t, col, p) == {i \in Active(t, col) : t[i].pos >= p}

\* the highest position of the active schedules of column col, 0 for none
MaxActive(t, col) ==
  IF Active(t, col) = {} THEN 0
  ELSE CHOOSE m \in {t[i].pos : i \in Active(t, col)} :
         \A i \in Active(t, col) : t[i].pos <= m

\* this step changes the position and the column of no schedule outside S
OthersKeep(S) ==
  \A i \in DOMAIN sched \ S :
    sched'[i].pos = sched[i].pos /\ sched'[i].col = sched[i].col

\* the row the shift loop of worker w saves in this step
Shifted(w) == Head(wk[w].list).id

\* the local `logs` of worker w's Move holds a board_column_id row: the
\* schedule was in another column than the requested one when it was read
ColumnLogged(w) ==
  \E k \in DOMAIN wk[w].buf : wk[w].buf[k].field = "board_column_id"

(***************************************************************************)
(* C1.  After any sequence of Create, Move and Delete calls, each run to   *)
(* completion one at a time, the active schedules of every column hold     *)
(* exactly the positions 1..N (invariant I1).                              *)
(* Stated as an invariant of Spec, for the states in which no call is in   *)
(* progress; the code violates it.                                         *)
(***************************************************************************)
C1_InvariantI1Preserved ==
  Quiet =>
    \A col \in Columns :
      /\ {sched[i].pos : i \in Active(sched, col)}
           = 1..Cardinality(Active(sched, col))
      /\ \A i, j \in Active(sched, col) : sched[i].pos = sched[j].pos => i = j

(***************************************************************************)
(* C2.  Calls on the same column served by parallel workers are            *)
(* serialized: once they have completed, every column's active positions   *)
(* are exactly 1..N.  Stated as an invariant of SpecConc; the code         *)
(* violates it.                                                            *)
(***************************************************************************)
C2_SameColumnSerialized == Quiet => \A col \in Columns : Dense(sched, col)

(***************************************************************************)
(* C3.  A Move or Delete that fails on the write of its primary row or of  *)
(* a sibling shift leaves no row changed: tw_schedules is what it was      *)
(* before the call.  Stated as a property of the steps of SpecFail; the    *)
(* code violates it.                                                       *)
(***************************************************************************)
C3_ShiftBatchAtomic ==
  [][\A w \in Workers :
       (/\ Ends(w)
        /\ wk[w].op \in {"move", "delete"}
        /\ last'.status = 500
        /\ last'.at \in {"shift", "m_save", "d_save"})
         => sched' = Before(w)]_vars

(***************************************************************************)
(* C4.  A listing read while a Move or Delete is in progress never shows   *)
(* a duplicate position or a gap.  Stated as an invariant of SpecObs; the  *)
(* code violates it.                                                       *)
(***************************************************************************)
C4_NoPartialListing ==
  (listed.during \cap {"move", "delete"} # {}) => ListedDense

(***************************************************************************)
(* C5.  The position of a soft-deleted schedule never changes again,       *)
(* whatever call is served.  Stated as a property of the steps of          *)
(* SpecAll; the code violates it.                                          *)
(***************************************************************************)
C5_DeletedPositionFrozen ==
  [][\A i \in DOMAIN sched :
       sched[i].del => sched'[i].pos = sched[i].pos]_vars

(***************************************************************************)
(* C6.  A Move inside the schedule's column to a position outside 1..N is  *)
(* rejected with status 400 (InvalidArgument) and changes neither a        *)
(* schedule row nor the log.  Stated as a property of the steps of Spec;   *)
(* the code violates it.                                                   *)
(***************************************************************************)
C6_OutOfRangeRejected ==
  [][\A w \in Workers :
       (/\ Ends(w)
        /\ IntraMove(w)
        /\ wk[w].pos \notin
             1..Cardinality(Active(Before(w), Before(w)[wk[w].id].col)))
         => (last'.status = 400 /\ sched' = Before(w) /\ NoLogRow)]_vars

(***************************************************************************)
(* C7.  Create appends: the insert of a Create gives the new schedule the  *)
(* position (number of active schedules the column holds) + 1,             *)
(* soft-deleted schedules not counted, and no statement of a Create        *)
(* changes the position of an existing schedule.  Stated as a property of  *)
(* the steps of SpecConc, where Creates are served while other calls on    *)
(* the column are; the code violates it.                                   *)
(***************************************************************************)
C7_CreateAppends ==
  [][\A w \in Workers :
       (wk[w].op = "create" /\ Runs(w))
         => /\ OthersKeep({})
            /\ wk[w].pc = "c_insert"
                 => LET new == Len(sched) + 1
                        c == wk[w].col[1]
                    IN  /\ DOMAIN sched' = 1..new
                        /\ sched'[new].col = c
                        /\ sched'[new].pos
                             = Cardinality(Active(sched, c)) + 1]_vars

(***************************************************************************)
(* C8.  Delete compaction: a Delete of a schedule that is active when the  *)
(* request is taken marks it is_deleted with deleted_at set and leaves its *)
(* position (p) and column; it finds the active siblings of its column     *)
(* above p and lowers each of them by 1, a statement each, changing the    *)
(* position and the column of no other schedule.  Stated as a property of  *)
(* the steps of SpecConc, where Deletes are served while other calls on    *)
(* the column are; the code violates it.                                   *)
(***************************************************************************)
C8_DeleteCompaction ==
  [][\A w \in Workers :
       (/\ wk[w].op = "delete" /\ Runs(w)
        /\ wk[w].id \in DOMAIN Before(w)
        /\ ~Before(w)[wk[w].id].del)
         => LET d == wk[w].id
                c == sched[d].col
                p == sched[d].pos
            IN  /\ wk[w].pc \in {"d_first", "d_find", "d_log"}
                     => OthersKeep({})
                /\ wk[w].pc = "d_save"
                     => /\ sched'[d].del /\ sched'[d].delAt
                        /\ OthersKeep({})
                /\ wk[w].pc = "d_find"
                     => {wk'[w].list[k].id : k \in DOMAIN wk'[w].list}
                          = {j \in Active(sched, c) \ {d} : sched[j].pos > p}
                /\ wk[w].pc = "shift"
                     => LET j == Shifted(w)
                        IN  /\ j \in Active(sched, c) \ {d}
                            /\ sched[j].pos > p
                            /\ sched'[j].pos = sched[j].pos - 1
                            /\ sched'[j].col = c
                            /\ OthersKeep({j})]_vars

(***************************************************************************)
(* C9.  Intra-column move toward the front: for a schedule read at         *)
(* oldPosition and moved inside its column to newPosition,                 *)
(* 1 <= newPosition < oldPosition, each statement of the shift raises by 1 *)
(* an active sibling at a position in newPosition..oldPosition-1 and       *)
(* changes no other schedule's position, and the Save of the moved         *)
(* schedule puts it at newPosition in the same column and moves no other   *)
(* schedule.  Stated as a property of the steps of SpecConc, where Moves   *)
(* are served while other calls on the column are; the code violates it.   *)
(***************************************************************************)
C9_MoveTowardFront ==
  [][\A w \in Workers :
       (wk[w].op = "move" /\ Runs(w) /\ wk[w].col # << >> /\ 1 <= wk[w].pos)
         => LET m == wk[w].id
                c == wk[w].col[1]
            IN  /\ (/\ wk[w].pc = "shift" /\ wk[w].delta = 1
                    /\ wk[w].row.col = c)
                     => LET j == Shifted(w)
                        IN  /\ j \in Active(sched, c) \ {m}
                            /\ sched[j].pos >= wk[w].pos
                            /\ sched[j].pos <= wk[w].row.pos - 1
                            /\ sched'[j].pos = sched[j].pos + 1
                            /\ sched'[j].col = c
                            /\ OthersKeep({j})
                /\ (/\ wk[w].pc = "m_save" /\ ~ColumnLogged(w)
                    /\ \E k \in DOMAIN wk[w].buf :
                         /\ wk[w].buf[k].field = "position"
                         /\ \E o \in Positions :
                              o > wk[w].pos /\ wk[w].buf[k].old = Itoa(o))
                     => /\ sched'[m].pos = wk[w].pos
                        /\ sched'[m].col = c
                        /\ OthersKeep({m})]_vars

(***************************************************************************)
(* C10.  No-op move: the Save of a Move to the column and the position the *)
(* schedule was read at changes the position and the column of no          *)
(* schedule and inserts no log row, and the call is answered 200.  Stated  *)
(* as a property of the steps of SpecConc, where Moves are served while    *)
(* other calls on the column are; the code violates it.                    *)
(***************************************************************************)
C10_NoOpMove ==
  [][\A w \in Workers :
       (/\ wk[w].op = "move" /\ Runs(w)
        /\ wk[w].pc = "m_save"
        /\ wk[w].col # << >>
        /\ wk[w].buf = << >>)
         => /\ OthersKeep({})
            /\ logs' = logs
            /\ Ends(w) /\ last'.status = 200]_vars

(***************************************************************************)
(* C11.  Cross-column move, mid-insert: when a schedule is moved to        *)
(* another column where active schedules are found at targetPosition or    *)
(* behind, each statement of the shift raises one of them by 1 and changes *)
(* no other schedule's position, and the Save of the moved schedule puts   *)
(* it at exactly targetPosition with board_column_id the target column.    *)
(* Stated as a property of the steps of SpecConc, where Moves are served   *)
(* while other calls on the columns are; the code violates it.             *)
(***************************************************************************)
C11_CrossMoveMidInsert ==
  [][\A w \in Workers :
       (wk[w].op = "move" /\ Runs(w) /\ wk[w].col # << >>)
         => LET m == wk[w].id
                c == wk[w].col[1]
            IN  /\ (/\ wk[w].pc = "shift" /\ wk[w].delta = 1
                    /\ wk[w].row.col # c)
                     => LET j == Shifted(w)
                        IN  /\ j \in AtOrBehind(sched, c, wk[w].pos) \ {m}
                            /\ sched'[j].pos = sched[j].pos + 1
                            /\ sched'[j].col = c
                            /\ OthersKeep({j})
                /\ (/\ wk[w].pc = "m_save" /\ ColumnLogged(w)
                    /\ wk[w].max = << >>)
                     => /\ sched'[m].pos = wk[w].pos
                        /\ sched'[m].col = c
                        /\ OthersKeep({m})]_vars

(***************************************************************************)
(* C12.  Cross-column move, append: when a schedule is moved to another    *)
(* column where no active schedule is found at targetPosition or behind    *)
(* (the column is empty, or targetPosition is past its end), the call is   *)
(* answered 200 and its Save places the schedule in the target column at   *)
(* (highest active position of the target column) + 1, which is 1 for an   *)
(* empty column, moving no other schedule.  Stated as a property of the    *)
(* steps of SpecConc, where Moves are served while other calls on the      *)
(* columns are; the code violates it.                                      *)
(***************************************************************************)
C12_CrossMoveAppend ==
  [][\A w \in Workers :
       (wk[w].op = "move" /\ Runs(w) /\ wk[w].max # << >>)
         => LET m == wk[w].id
                c == wk[w].col[1]
                others == [sched EXCEPT ![m].del = TRUE]
            IN  /\ wk[w].pc = "m_save"
                     => /\ sched'[m].col = c
                        /\ sched'[m].pos = MaxActive(others, c) + 1
                        /\ OthersKeep({m})
                /\ Ends(w) => last'.status = 200]_vars

(***************************************************************************)
(* C13.  A Move that carries no target column is a move inside the         *)
(* schedule's column: for an active schedule and a newPosition in 1..N     *)
(* other than its position, the schedule ends at newPosition in its        *)
(* column.  Stated as a property of the steps of Spec; the code violates   *)
(* it.                                                                     *)
(***************************************************************************)
C13_OmittedColumnMovesWithin ==
  [][\A w \in Workers :
       (/\ Ends(w)
        /\ wk[w].op = "move" /\ wk[w].col = << >>
        /\ wk[w].id \in DOMAIN Before(w)
        /\ ~Before(w)[wk[w].id].del
        /\ wk[w].pos \in
             1..Cardinality(Active(Before(w), Before(w)[wk[w].id].col))
        /\ wk[w].pos # Before(w)[wk[w].id].pos)
         => /\ last'.status = 200
            /\ sched'[wk[w].id].pos = wk[w].pos
            /\ sched'[wk[w].id].col = Before(w)[wk[w].id].col]_vars

(***************************************************************************)
(* C14.  NotFound leaves the store untouched: an Update, Move or Delete    *)
(* of an id that no row of tw_schedules has is answered 404, and the call  *)
(* changes no schedule row, inserts no log row and no participant row.     *)
(***************************************************************************)
C14_NotFoundUntouched ==
  [][\A w \in Workers :
       (/\ Ends(w)
        /\ wk[w].op \in {"update", "move", "delete"}
        /\ wk[w].id \notin DOMAIN Before(w))
         => /\ last'.status = 404
            /\ sched' = Before(w)
            /\ parts' = wk[w].pre.parts
            /\ NoLogRow]_vars

\* a Delete of an id above the ids the table holds was answered 404
C14_Witness ==
  /\ Quiet
  /\ last.op = "delete" /\ last.status = 404
  /\ Len(sched) > 0
  /\ last.id > Len(sched)
  /\ logs = << >>

(***************************************************************************)
(* C15.  Update never reorders: whatever the patch, no statement of an     *)
(* Update changes the position or the board_column_id of a schedule, the   *)
(* updated one included.  Stated as a property of the steps of             *)
(* SpecWorkers, where Updates are served while other calls are; the code   *)
(* violates it.                                                            *)
(***************************************************************************)
C15_UpdateNeverReorders ==
  [][\A w \in Workers :
       (wk[w].op = "update" /\ wk'[w] # wk[w])
         => /\ DOMAIN sched' = DOMAIN sched
            /\ \A j \in DOMAIN sched :
                 /\ sched'[j].pos = sched[j].pos
                 /\ sched'[j].col = sched[j].col]_vars

\* the tracked fields whose value differs between the rows r and r1
ChangedFields(r, r1) ==
  {f \in {"title", "start_time", "status"} :
     \/ f = "title" /\ r.title # r1.title
     \/ f = "start_time" /\ r.start # r1.start
     \/ f = "status" /\ r.status # r1.status}

(***************************************************************************)
(* C16.  Change log completeness: one Update inserts exactly one log row   *)
(* for each tracked field whose value differs between the schedule before  *)
(* and after the call, and no log row for a field that is unchanged or     *)
(* absent from the patch.  Stated as a property of the steps of            *)
(* SpecUpdate; the code violates it.                                       *)
(***************************************************************************)
C16_ChangeLogCompleteness ==
  [][\A w \in Workers :
       (Ends(w) /\ wk[w].op = "update" /\ last'.status = 200)
         => LET changed == ChangedFields(Before(w)[wk[w].id],
                                         sched'[wk[w].id])
            IN  /\ {logs'[k].field : k \in DOMAIN logs'} = changed
                /\ Len(logs') = Cardinality(changed)]_vars

(***************************************************************************)
(* C17.  Create side effects: every Create answered 201 has inserted, for  *)
(* the new schedule, exactly one participant row (the creating actor, role *)
(* "creator", invitation status "joined") and exactly one "create          *)
(* schedule" log row, and no other call inserts either; so whenever no     *)
(* call is in progress every schedule has exactly one participant row, its *)
(* creator's, and the schedule of the Create answered last has its create  *)
(* log row.  Stated as a property of SpecFail, where a store write may     *)
(* fail; the code violates it.                                             *)
(***************************************************************************)
C17_CreateSideEffects ==
  /\ [](Quiet =>
          \A i \in DOMAIN sched :
            /\ Cardinality({k \in DOMAIN parts : parts[k].sid = i}) = 1
            /\ \A k \in DOMAIN parts :
                 parts[k].sid = i =>
                   /\ parts[k].actor = sched[i].by
                   /\ parts[k].status = "creator"
                   /\ parts[k].invitation = "joined")
  /\ [](Quiet /\ last.op = "create" /\ last.id \in DOMAIN sched
          => logs = <<[sid |-> last.id, actor |-> last.actor,
                       action |-> "create schedule", field |-> "",
                       old |-> << >>, new |-> << >>]>>)
  /\ [][\A w \in Workers :
          /\ (Ends(w) /\ wk[w].op = "create" /\ last'.status = 201)
               => /\ Len(sched') = Len(Before(w)) + 1
                  /\ parts' = Append(wk[w].pre.parts,
                                [sid |-> Len(sched'), actor |-> wk[w].actor,
                                 status |-> "creator",
                                 invitation |-> "joined"])
          /\ (Ends(w) /\ wk[w].op # "create")
               => /\ parts' = wk[w].pre.parts
                  /\ \A k \in DOMAIN logs' :
                       logs'[k].action # "create schedule"]_vars

(***************************************************************************)
(* C18.  ListByColumn returns exactly the active (is_deleted = false)      *)
(* schedules of the requested column, as they are in the table, in         *)
(* ascending order of position; no soft-deleted schedule is returned.      *)
(* Stated as a property of the steps of SpecList; the code violates it.    *)
(***************************************************************************)
C18_ListActiveAscending ==
  [][(listed' # listed)
       => LET rows == listed'.rows
          IN  /\ {rows[k].id : k \in DOMAIN rows} = Active(sched, listed'.col)
              /\ Len(rows) = Cardinality(Active(sched, listed'.col))
              /\ \A k \in DOMAIN rows :
                   /\ rows[k].row = sched[rows[k].id]
                   /\ ~rows[k].row.del
              /\ \A k \in 1..(Len(rows) - 1) :
                   rows[k].row.pos <= rows[k + 1].row.pos]_vars

(***************************************************************************)
(* C19.  Deletion is always soft: no statement removes a row of            *)
(* tw_schedules (a row, once created, is there in every later state), and  *)
(* no statement of a Delete changes anything of the row it deletes but     *)
(* is_deleted and deleted_at.  Stated as a property of the steps of        *)
(* SpecWorkers, where Deletes are served while Updates are; the code       *)
(* violates it.                                                            *)
(***************************************************************************)
C19_DeletionIsSoft ==
  [][/\ Len(sched') >= Len(sched)
     /\ \A w \in Workers :
          (wk[w].op = "delete" /\ wk'[w] # wk[w])
            => LET d == wk[w].id
               IN  sched'[d] = [sched[d] EXCEPT !.del = sched'[d].del,
                                                !.delAt = sched'[d].delAt]]_vars

C21_CrossMoveClosesSource ==
  [][\A w \in Workers :
       (wk[w].op = "move" /\ Runs(w))
         => LET m == wk[w].id
                c == wk[w].row.col
                p == wk[w].row.pos
            IN  /\ wk[w].pc = "m_findSource"
                     => /\ {wk'[w].list[k].id : k \in DOMAIN wk'[w].list}
                             = {j \in Active(sched, c) \ {m} :
                                  sched[j].pos > p}
                        /\ OthersKeep({})
                /\ (wk[w].pc = "shift" /\ wk[w].next = "target")
                     => LET j == Shifted(w)
                        IN  /\ j \in Active(sched, c) \ {m}
                            /\ sched[j].pos > p
                            /\ sched'[j].pos = sched[j].pos - 1
                            /\ sched'[j].col = c
                            /\ OthersKeep({j})]_vars

(***************************************************************************)
(* Terms of C22.                                                           *)
(***************************************************************************)
\* the columns the call r touches, r being in progress on the table t
Touched(t, r) ==
  CASE r.op = "create" -> {r.col[1]}
    [] r.op = "move"   -> {t[r.id].col, r.col[1]}
    [] r.op = "delete" -> {t[r.id].col}

\* the rows of column c, in the order of their ids
ColumnRows(t, c) == LET InColumn(r) == r.col = c IN SelectSeq(t, InColumn)

\* the columns of worker v as they may be once v's call r, if one is in
\* progress, has run to its end with no other call taking a step
Outcome(t, r, v) ==
  LET ends == IF r.pc = "idle" THEN {t}
              ELSE {e.sched : e \in Run([sched |-> t, logs |-> << >>,
                                         parts |-> << >>, w |-> r])}
  IN  {[c \in ColumnsOf(v) |-> ColumnRows(end, c)] : end \in ends}

(***************************************************************************)
(* C22.  Column isolation: a statement of a Create, Move or Delete         *)
(* changes no schedule outside the columns the call touches (the column    *)
(* of a Create, a Delete or a move inside a column; the source and the     *)
(* target column of a cross-column move).  So for calls served in          *)
(* parallel on disjoint columns, what a call will leave in its columns is  *)
(* fixed when the call begins, as if it were served alone, and no step of  *)
(* the other worker changes it; when both workers are done every column    *)
(* holds 1..N.  (A step that changes neither the table nor the worker's   *)
(* call leaves the outcomes as they are, and is not recomputed.)           *)
(***************************************************************************)
C22_ColumnIsolation ==
  /\ [][\A w \in Workers :
          /\ (~Free(w) /\ wk'[w] # wk[w])
               => \A j \in DOMAIN sched :
                    sched[j].col \notin Touched(sched, wk[w])
                      => sched'[j] = sched[j]
          /\ (~Free(w) /\ <<sched', wk'[w]>> # <<sched, wk[w]>>)
               => Outcome(sched', wk'[w], w) \subseteq Outcome(sched, wk[w], w)]_vars
  /\ [](Quiet => \A c \in 1..3 : Dense(sched, c))

\* worker 1 has moved S1 from column 1 to column 2 and is about to save
\* S1 and insert the log row, while worker 2 is in the middle of deleting
\* S2 in column 3
C22_Witness ==
  /\ wk[1].op = "move" /\ wk[1].pc = "m_save"
  /\ wk[2].op = "delete" /\ wk[2].pc = "d_find"
  /\ wk[1].id # wk[2].id
  /\ sched[wk[2].id].col = 3 /\ sched[wk[2].id].del

(***************************************************************************)
(* C29.  The relative order of the other schedules is preserved: for any   *)
(* two active schedules A and B, neither the one created, moved or         *)
(* deleted, that share a column before the call and share a column after   *)
(* it, A is before B after the call if and only if it was before the       *)
(* call.  Stated as a property of the steps of Spec; the code violates it. *)
(***************************************************************************)
C29_RelativeOrderPreserved ==
  [][\A w \in Workers :
       (/\ Ends(w)
        /\ wk[w].op \in {"create", "move", "delete"}
        /\ last'.status \in {200, 201})
         => \A A, B \in DOMAIN Before(w) :
              (/\ A # wk[w].id /\ B # wk[w].id
               /\ ~Before(w)[A].del /\ ~Before(w)[B].del
               /\ ~sched'[A].del /\ ~sched'[B].del
               /\ Before(w)[A].col = Before(w)[B].col
               /\ sched'[A].col = sched'[B].col)
                => ((sched'[A].pos < sched'[B].pos)
                      <=> (Before(w)[A].pos < Before(w)[B].pos))]_vars

(***************************************************************************)
(* C23.  Update applies only the fields present in the patch: created_by,  *)
(* is_deleted, deleted_at, position, board_column_id and every tracked     *)
(* field absent from the patch have the same value after an Update as      *)
(* before it.  Stated as a property of the steps of SpecEdit; the code     *)
(* violates it.                                                            *)
(***************************************************************************)
C23_UpdateOnlyPatchedFields ==
  [][\A w \in Workers :
       (Ends(w) /\ wk[w].op = "update" /\ last'.status = 200)
         => LET r == Before(w)[wk[w].id]
                r1 == sched'[wk[w].id]
            IN  /\ r1.by = r.by
                /\ r1.del = r.del /\ r1.delAt = r.delAt
                /\ r1.col = r.col /\ r1.pos = r.pos
                /\ wk[w].patch.title = << >> => r1.title = r.title
                /\ wk[w].patch.status = << >> => r1.status = r.status
                /\ wk[w].patch.start = << >> => r1.start = r.start]_vars

(***************************************************************************)
(* C24.  Unparsable timestamp in an Update patch: when the start_time of   *)
(* the patch does not parse, the call is answered 200, the stored          *)
(* start_time keeps its value and no log row is inserted for start_time.   *)
(* Stated as a property of the steps of SpecUpdate; the code violates it.  *)
(***************************************************************************)
C24_UnparsableTimeIgnored ==
  [][\A w \in Workers :
       (/\ Ends(w)
        /\ wk[w].op = "update"
        /\ wk[w].id \in DOMAIN Before(w)
        /\ wk[w].patch.start = <<BadTime>>)
         => /\ last'.status = 200
            /\ sched'[wk[w].id].start = Before(w)[wk[w].id].start
            /\ \A k \in DOMAIN logs' : logs'[k].field # "start_time"]_vars

(***************************************************************************)
(* C25.  Delete is logged: a Delete answered 200 inserts exactly one log   *)
(* row, with the delete action, the deleted schedule and the acting user;  *)
(* a Delete answered with an error leaves no soft-delete mark, no sibling  *)
(* shift and no log row.  Stated as a property of the steps of SpecFail;   *)
(* the code violates it.                                                   *)
(***************************************************************************)
C25_DeleteLoggedOrNothing ==
  [][\A w \in Workers :
       /\ (Ends(w) /\ wk[w].op = "delete" /\ last'.status = 200)
            => logs' = <<[sid |-> wk[w].id, actor |-> wk[w].actor,
                          action |-> "delete schedule", field |-> "",
                          old |-> << >>, new |-> << >>]>>
       /\ (Ends(w) /\ wk[w].op = "delete" /\ last'.status \notin {0, 200})
            => (sched' = Before(w) /\ NoLogRow)]_vars

(***************************************************************************)
(* C26.  Calls addressed to an already soft-deleted schedule do not        *)
(* disturb the active ordering: a second Delete of the same id, or a Move  *)
(* of a soft-deleted schedule, changes the position and the column of no   *)
(* active schedule.  Stated as a property of the steps of Spec; the code   *)
(* violates it.                                                            *)
(***************************************************************************)
C26_DeletedTargetHarmless ==
  [][\A w \in Workers :
       (/\ Ends(w)
        /\ wk[w].op \in {"delete", "move"}
        /\ wk[w].id \in DOMAIN Before(w)
        /\ Before(w)[wk[w].id].del)
         => \A j \in DOMAIN Before(w) :
              ~Before(w)[j].del => /\ sched'[j].pos = Before(w)[j].pos
                                   /\ sched'[j].col = Before(w)[j].col]_vars

(***************************************************************************)
(* C27.  A cross-column move clamps every out-of-range target position:    *)
(* whatever targetPosition is (below 1 and above M+1 included, M the       *)
(* number of active schedules the target column holds, at 1..M), a         *)
(* successful cross-column move of an active schedule leaves it at a       *)
(* position in 1..M+1 and the target column's active positions exactly     *)
(* 1..M+1.  Stated as a property of the steps of Spec; the code violates   *)
(* it.                                                                     *)
(***************************************************************************)
C27_CrossMoveClamps ==
  [][\A w \in Workers :
       (/\ Ends(w)
        /\ CrossMove(w) /\ last'.status = 200
        /\ ~Before(w)[wk[w].id].del
        /\ Dense(Before(w), wk[w].col[1]))
         => LET c == wk[w].col[1]
                M == Cardinality(Active(Before(w), c))
            IN  /\ sched'[wk[w].id].pos \in 1..(M + 1)
                /\ {sched'[i].pos : i \in Active(sched', c)} = 1..(M + 1)]_vars

(***************************************************************************)
(* C28.  The position log row is accurate: a log row with field_changed    *)
(* "position" that a Move inserts has the schedule's position before the   *)
(* move as old_value and the position the move saved for it as new_value,  *)
(* and a cross-column move that changes the saved position inserts such a  *)
(* row.  Stated as a property of the steps of Spec; the code violates it.  *)
(***************************************************************************)
C28_PositionLogAccurate ==
  [][\A w \in Workers :
       (/\ Ends(w)
        /\ wk[w].op = "move" /\ last'.status = 200
        /\ wk[w].id \in DOMAIN Before(w))
         => LET m == wk[w].id
            IN  /\ \A k \in DOMAIN logs' :
                     logs'[k].field = "position"
                       => /\ logs'[k].old = Itoa(Before(w)[m].pos)
                          /\ logs'[k].new = Itoa(sched'[m].pos)
                /\ (CrossMove(w) /\ sched'[m].pos # Before(w)[m].pos)
                     => \E k \in DOMAIN logs' :
                          logs'[k].field = "position"]_vars

====
